---- MODULE Spec2Model ----
(***************************************************************************)
(* winit-blit, Linux platform layer: the PixelBuffer facade                *)
(* (src/platform_impl/linux/mod.rs) over the Xlib backend                  *)
(* (src/platform_impl/linux/xlib.rs).                                      *)
(*                                                                         *)
(* Machine integers keep their width.  TLC's integers stop at 2^31 - 1, so *)
(* a machine value is a natural number written as its base-2^8 digits,     *)
(* least significant first, without leading zeros ("limbs"); u32 values    *)
(* have at most 4 limbs and usize values (a 64-bit target) at most 8.      *)
(* Values kept in the state (width, height, offsets into the byte buffer)  *)
(* are below 2^31 and are plain integers.                                  *)
(***************************************************************************)
EXTENDS Integers, Sequences, FiniteSets, TLC

VARIABLES
    build,      \* "debug": overflow checks panic; "release": u32/usize arithmetic wraps
    cell,       \* XLIB_CONTEXT, the process-wide OnceCell<XlibContext>
    initCount,  \* number of XlibContext values ever stored into the cell
    pb,         \* the PixelBuffer (its xlib backend), or NoBuf
    image,      \* the native XImage of pb: its life, its data pointer, its frees
    bufFrees,   \* how many times the storage of pb.buf has been deallocated
    ret,        \* outcome of the last operation
    events,     \* native calls and (de)allocations made by the last operation
    tpc,        \* per thread: position inside XlibContext::get
    tdisp,      \* per thread: the display passed to XlibContext::get
    tres        \* per thread: outcome of its last XlibContext::get

vars == <<build, cell, initCount, pb, image, bufFrees, ret, events, tpc, tdisp, tres>>

-----------------------------------------------------------------------------
(* Bounds of the model. *)

MaxWidth == 2
MaxHeight == 2
MaxCoord == 2
MaxRow == 3
MaxBufLen == 24
MaxDisplay == 2
MaxThread == 3

\* a width whose byte count does not fit 32 bits: 4 * BigWidth = 2^32 + 4
BigWidth == 2^30 + 1

Widths == (0..MaxWidth) \cup {BigWidth}
Heights == 0..MaxHeight
RowIndexes == 0..MaxRow
Displays == 1..MaxDisplay
Threads == 1..MaxThread
Builds == {"debug", "release"}

PixelBufferFormatType == {"BGR", "BGRA", "RGB", "RGBA"}
\* RawWindowHandle variants that reach this platform layer
HandleTags == {"Xlib", "Xcb", "Wayland"}

-----------------------------------------------------------------------------
(* Natural numbers as limbs. *)

Base == 2^8

RECURSIVE ToLimbs(_)
ToLimbs(n) == IF n = 0 THEN <<>> ELSE <<n % Base>> \o ToLimbs(n \div Base)

RECURSIVE Norm(_)
Norm(a) ==
    IF a = <<>> THEN <<>>
    ELSE IF a[Len(a)] = 0 THEN Norm(SubSeq(a, 1, Len(a) - 1)) ELSE a

Limb(a, i) == IF i <= Len(a) THEN a[i] ELSE 0

RECURSIVE AddFrom(_, _, _, _)
AddFrom(a, b, i, c) ==
    IF i > Len(a) /\ i > Len(b) THEN (IF c = 0 THEN <<>> ELSE <<c>>)
    ELSE LET s == Limb(a, i) + Limb(b, i) + c
         IN  <<s % Base>> \o AddFrom(a, b, i + 1, s \div Base)

AddL(a, b) == Norm(AddFrom(a, b, 1, 0))

RECURSIVE ScaleFrom(_, _, _, _)
ScaleFrom(a, d, i, c) ==
    IF i > Len(a) THEN (IF c = 0 THEN <<>> ELSE <<c>>)
    ELSE LET s == a[i] * d + c
         IN  <<s % Base>> \o ScaleFrom(a, d, i + 1, s \div Base)

ShiftUp(a) == IF a = <<>> THEN <<>> ELSE <<0>> \o a

RECURSIVE MulFrom(_, _, _)
MulFrom(a, b, j) ==
    IF j > Len(b) THEN <<>>
    ELSE AddL(Norm(ScaleFrom(a, b[j], 1, 0)), ShiftUp(MulFrom(a, b, j + 1)))

MulL(a, b) == Norm(MulFrom(a, b, 1))

\* a < Base^k
Fits(a, k) == Len(a) <= k
\* a mod Base^k
Low(a, k) == Norm(SubSeq(a, 1, IF Len(a) < k THEN Len(a) ELSE k))

RECURSIVE ToInt(_)
ToInt(a) == IF a = <<>> THEN 0 ELSE Head(a) + Base * ToInt(Tail(a))

\* a <= n, for an integer n below Base^3
LeqInt(a, n) == Fits(a, 3) /\ ToInt(a) <= n

\* Base^4 - 1 - a, for a below Base^4
Complement4(a) == Norm([i \in 1..4 |-> Base - 1 - Limb(a, i)])

-----------------------------------------------------------------------------
(* Machine arithmetic: the exact result's low bits, and whether it overflowed.
   An overflow panics in a build with overflow checks and wraps in one without. *)

MulU32(a, b) ==
    LET p == MulL(a, b) IN [overflow |-> ~Fits(p, 4), value |-> Low(p, 4)]

MulUsize(a, b) ==
    LET p == MulL(a, b) IN [overflow |-> ~Fits(p, 8), value |-> Low(p, 8)]

AddUsize(a, b) ==
    LET s == AddL(a, b) IN [overflow |-> ~Fits(s, 8), value |-> Low(s, 8)]

\* x - y over u32, x and y below 2^31
SubU32(x, y) ==
    IF x >= y THEN [overflow |-> FALSE, value |-> ToLimbs(x - y)]
    ELSE [overflow |-> TRUE, value |-> Complement4(ToLimbs(y - x - 1))]

Panics(r) == build = "debug" /\ r.overflow

-----------------------------------------------------------------------------
(* State. *)

NoBuf == [live |-> FALSE]
NoImage == [st |-> "none", data |-> "null", frees |-> 0]
NoRet == [op |-> "none", kind |-> "none"]
EmptyCell == [state |-> "Incomplete", display |-> 0]

Ev(call, arg) == [call |-> call, arg |-> arg]

RECURSIVE Count(_, _)
Count(evs, call) ==
    IF evs = <<>> THEN 0
    ELSE (IF Head(evs).call = call THEN 1 ELSE 0) + Count(Tail(evs), call)

Init ==
    /\ build \in Builds
    /\ cell = EmptyCell
    /\ initCount = 0
    /\ pb = NoBuf
    /\ image = NoImage
    /\ bufFrees = 0
    /\ ret = NoRet
    /\ events = <<>>
    /\ tpc = [t \in Threads |-> "idle"]
    /\ tdisp = [t \in Threads |-> 0]
    /\ tres = [t \in Threads |-> [kind |-> "none"]]

-----------------------------------------------------------------------------
(* XlibContext *)

\* XlibContext::init: Xlib::open may fail; otherwise the context records the display
XlibContext_init(display, openOk) ==
    IF openOk THEN [kind |-> "ok", display |-> display]
    ELSE [kind |-> "err", err |-> "OpenXlib"]

\* the assert of XlibContext::get, on the context the cell holds
XlibContext_check(c, display) ==
    IF c.display = display THEN [kind |-> "ok", display |-> c.display]
    ELSE [kind |-> "panic", msg |-> "assertion failed: context.display == display"]

\* XlibContext::get run to completion by one thread with no other thread inside it
XlibContext_get(c, display, openOk) ==
    IF c.state = "Complete" THEN [cell |-> c, inits |-> 0, res |-> XlibContext_check(c, display)]
    ELSE LET i == XlibContext_init(display, openOk)
         IN  IF i.kind = "err" THEN [cell |-> c, inits |-> 0, res |-> i]
             ELSE LET c2 == [state |-> "Complete", display |-> i.display]
                  IN  [cell |-> c2, inits |-> 1, res |-> XlibContext_check(c2, display)]

-----------------------------------------------------------------------------
(* xlib::PixelBuffer *)

\* the channel masks of the visual template: (red, green, blue)
VisualMasks(format) ==
    IF format \in {"BGR", "BGRA"} THEN <<"FF0000", "00FF00", "0000FF">>
    ELSE <<"0000FF", "00FF00", "FF0000">>

pixel_byte_count(format) == IF format \in {"BGR", "RGB"} THEN 3 ELSE 4

Zeros(n) == [i \in 1..n |-> 0]

\* pixel_byte_count * width * height as the vec! length: two u32 multiplications
BufferSize(pbc, width, height) ==
    LET m1 == MulU32(ToLimbs(pbc), ToLimbs(width))
        m2 == MulU32(m1.value, ToLimbs(height))
    IN  [overflow |-> m1.overflow \/ m2.overflow, value |-> m2.value]

NewFail(kind, what, c, inits, evs, frees) ==
    [res |-> [kind |-> kind, what |-> what], cell |-> c, inits |-> inits,
     events |-> evs, pb |-> NoBuf, image |-> NoImage, bufFrees |-> frees]

\* xlib::PixelBuffer::new.  openOk, visFound and imgOk are the outcomes of
\* Xlib::open, XGetVisualInfo (a non-null list) and XCreateImage (a non-null image).
xlib_new(width, height, format, display, openOk, visFound, imgOk) ==
    LET g    == XlibContext_get(cell, display, openOk)
        pbc  == pixel_byte_count(format)
        size == BufferSize(pbc, width, height)
        len  == ToInt(size.value)
        e1   == <<Ev("XGetVisualInfo", [masks |-> VisualMasks(format), found |-> visFound])>>
        e2   == e1 \o <<Ev("alloc_buf", len)>>
        e3   == e2 \o <<Ev("XCreateImage", <<width, height>>)>>
    IN  IF g.res.kind = "err"
          THEN NewFail("panic", "unwrap: OpenXlib", g.cell, g.inits, <<>>, 0)
        ELSE IF g.res.kind = "panic"
          THEN NewFail("panic", g.res.msg, g.cell, g.inits, <<>>, 0)
        ELSE IF ~visFound
          THEN NewFail("panic", "No matching visual found", g.cell, g.inits, e1, 0)
        ELSE IF Panics(size)
          THEN NewFail("panic", "attempt to multiply with overflow", g.cell, g.inits, e1, 0)
        ELSE IF ~imgOk
          THEN NewFail("panic", "explicit panic", g.cell, g.inits,
                       e3 \o <<Ev("free_buf", len)>>, 1)
        ELSE [res |-> [kind |-> "ok", what |-> "Xlib"], cell |-> g.cell, inits |-> g.inits,
              events |-> e3 \o <<Ev("XChangeWindowAttributes", display), Ev("XFree", "visinfos")>>,
              pb |-> [live |-> TRUE, width |-> width, height |-> height,
                      pixel_byte_count |-> pbc, buf |-> Zeros(len)],
              image |-> [st |-> "live", data |-> "buf", frees |-> 0],
              bufFrees |-> 0]

\* PixelBuffer::new of the facade: the match on the handle's variant.  Only the
\* x11 backend exists (wayland/mod.rs defines no wayland::PixelBuffer), so every
\* variant but Xlib ends in a panic! arm.
PixelBuffer_new(width, height, format, tag, display, openOk, visFound, imgOk) ==
    IF tag = "Xlib" THEN xlib_new(width, height, format, display, openOk, visFound, imgOk)
    ELSE IF tag = "Xcb" THEN NewFail("panic", "XCB is currently not supported!", cell, 0, <<>>, 0)
    ELSE NewFail("panic", "Unsupported window handle type", cell, 0, <<>>, 0)

\* the model keeps the byte buffer as a sequence: allocations above MaxBufLen are left out
NewInBounds(width, height, format) ==
    LET size == BufferSize(pixel_byte_count(format), width, height)
    IN  Panics(size) \/ LeqInt(size.value, MaxBufLen)

\* the arguments and native outcomes xlib::PixelBuffer::new reads; the panic! arms
\* of the facade read none of them
NewInputs(tag) ==
    IF tag = "Xlib"
    THEN {i \in [width : Widths, height : Heights, format : PixelBufferFormatType,
                 openOk : BOOLEAN, visFound : BOOLEAN, imgOk : BOOLEAN] :
             NewInBounds(i.width, i.height, i.format)}
    ELSE {[width |-> 0, height |-> 0, format |-> "BGRA",
           openOk |-> TRUE, visFound |-> TRUE, imgOk |-> TRUE]}

New ==
    /\ ~pb.live
    /\ \E tag \in HandleTags, display \in Displays :
          \E i \in NewInputs(tag) :
             \E r \in {PixelBuffer_new(i.width, i.height, i.format, tag, display,
                                       i.openOk, i.visFound, i.imgOk)} :
                 /\ cell' = r.cell
                 /\ initCount' = initCount + r.inits
                 /\ pb' = r.pb
                 /\ image' = r.image
                 /\ bufFrees' = r.bufFrees
                 /\ events' = r.events
                 /\ ret' = [op |-> "new", kind |-> r.res.kind, what |-> r.res.what,
                            tag |-> tag, display |-> display]
    /\ UNCHANGED <<build, tpc, tdisp, tres>>

-----------------------------------------------------------------------------
(* impl Drop for PixelBuffer *)

\* a drop that leaves the image's data pointer on the buffer
DetachData_Kept(img) == img

\* (*self.image).data = ptr::null_mut()
DetachData(img) == [img EXCEPT !.data = "null"]

\* XDestroyImage: frees the image's data when the pointer is set, then the image
XDestroyImage(img) ==
    [image |-> [img EXCEPT !.st = "destroyed", !.frees = @ + 1],
     dataFrees |-> IF img.data = "null" THEN 0 ELSE 1]

\* drop(): detach, destroy the image; then the fields are dropped, buf among them
Drop ==
    /\ pb.live
    /\ LET i1 == DetachData(image)
           d  == XDestroyImage(i1)
       IN  /\ image' = d.image
           /\ bufFrees' = bufFrees + d.dataFrees + 1
           /\ events' = <<Ev("set_data", i1.data), Ev("XDestroyImage", "image")>>
                        \o (IF d.dataFrees = 1 THEN <<Ev("free_buf", "XDestroyImage")>> ELSE <<>>)
                        \o <<Ev("free_buf", "Vec")>>
    /\ pb' = NoBuf
    /\ ret' = [op |-> "drop", kind |-> "ok", cellBefore |-> cell]
    /\ UNCHANGED <<build, cell, initCount, tpc, tdisp, tres>>

-----------------------------------------------------------------------------
(* Accessors of the backend and of the facade *)

bytes_per_pixel(b) == b.pixel_byte_count

\* (pixel_byte_count * width) as u32
row_len(b) == MulU32(ToLimbs(b.pixel_byte_count), ToLimbs(b.width))

\* self.height() - 1 - tlo_row, two u32 subtractions
tlo_to_blo(b, tlo_row) ==
    LET s1 == SubU32(b.height, 1)
    IN  IF s1.overflow
        THEN [overflow |-> TRUE, value |-> Complement4(ToLimbs(tlo_row))]
        ELSE SubU32(b.height - 1, tlo_row)

\* slice::get(index .. index + pixel_len) on a slice of length len
SliceGet(index, end, len) ==
    IF LeqInt(end, len) /\ LeqInt(index, ToInt(end))
    THEN [kind |-> "some", start |-> ToInt(index), len |-> ToInt(end) - ToInt(index)]
    ELSE [kind |-> "none"]

\* row / row_mut: the byte range of bytes() handed out for top-left-origin row n
row(b, n) ==
    LET blo       == tlo_to_blo(b, n)
        rl        == row_len(b)
        index     == MulUsize(blo.value, rl.value)
        pixel_len == MulUsize(ToLimbs(b.width), ToLimbs(bytes_per_pixel(b)))
        end       == AddUsize(index.value, pixel_len.value)
    IN  IF Panics(blo) \/ Panics(rl) \/ Panics(index) \/ Panics(pixel_len) \/ Panics(end)
        THEN [kind |-> "panic"]
        ELSE SliceGet(index.value, end.value, Len(b.buf))

\* chunks(stride): a stride above the slice's length cuts it like length + 1 does
Stride(b) ==
    LET rl == row_len(b).value
    IN  IF rl = <<>> THEN 1
        ELSE IF LeqInt(rl, Len(b.buf)) THEN ToInt(rl) ELSE Len(b.buf) + 1

NumChunks(len, stride) == (len + stride - 1) \div stride

\* the k-th chunk (from 0) of chunks(stride) over a slice of length len
Chunk(len, stride, k) ==
    [start |-> k * stride,
     len |-> IF len - k * stride < stride THEN len - k * stride ELSE stride]

\* rows / rows_mut, consumed to the end: chunks(stride).rev().map(|row| &row[..pixel_len])
rows(b) ==
    LET rl        == row_len(b)
        stride    == Stride(b)
        pixel_len == MulUsize(ToLimbs(b.width), ToLimbs(bytes_per_pixel(b)))
        len       == Len(b.buf)
        n         == NumChunks(len, stride)
    IN  IF Panics(rl) \/ Panics(pixel_len) THEN [kind |-> "panic", count |-> 0]
        ELSE IF \E k \in 0..(n - 1) : ~LeqInt(pixel_len.value, Chunk(len, stride, k).len)
        THEN [kind |-> "panic", count |-> n]
        ELSE [kind |-> "items", count |-> n,
              items |-> [i \in 1..n |-> [start |-> Chunk(len, stride, n - i).start,
                                         len |-> ToInt(pixel_len.value)]]]

\* the bytes of buf with the range (start, len) overwritten by the byte m
Fill(buf, start, len, m) ==
    [i \in 1..Len(buf) |-> IF i > start /\ i <= start + len THEN m ELSE buf[i]]

RECURSIVE FillAll(_, _, _)
FillAll(buf, items, m) ==
    IF items = <<>> THEN buf
    ELSE FillAll(Fill(buf, Head(items).start, Head(items).len, m), Tail(items), m)

\* the byte a caller writes through row_mut / rows_mut
MarkerByte == Base - 1

Row ==
    /\ pb.live
    /\ \E n \in RowIndexes :
          \E r \in {row(pb, n)} :
             ret' = [op |-> "row", n |-> n, res |-> r]
    /\ events' = <<>>
    /\ UNCHANGED <<build, cell, initCount, pb, image, bufFrees, tpc, tdisp, tres>>

RowMut ==
    /\ pb.live
    /\ \E n \in RowIndexes :
          \E r \in {row(pb, n)} :
             /\ ret' = [op |-> "row_mut", n |-> n, res |-> r, before |-> pb.buf]
             /\ pb' = IF r.kind = "some"
                      THEN [pb EXCEPT !.buf = Fill(@, r.start, r.len, MarkerByte)]
                      ELSE pb
    /\ events' = <<>>
    /\ UNCHANGED <<build, cell, initCount, image, bufFrees, tpc, tdisp, tres>>

Rows ==
    /\ pb.live
    /\ ret' = [op |-> "rows", res |-> rows(pb)]
    /\ events' = <<>>
    /\ UNCHANGED <<build, cell, initCount, pb, image, bufFrees, tpc, tdisp, tres>>

RowsMut ==
    /\ pb.live
    /\ \E r \in {rows(pb)} :
          /\ ret' = [op |-> "rows_mut", res |-> r]
          /\ pb' = IF r.kind = "items"
                   THEN [pb EXCEPT !.buf = FillAll(@, r.items, MarkerByte)]
                   ELSE pb
    /\ events' = <<>>
    /\ UNCHANGED <<build, cell, initCount, image, bufFrees, tpc, tdisp, tres>>

-----------------------------------------------------------------------------
(* blit *)

Success == 0
BadValue == 2
I32Max == (2^30 - 1) + 2^30
U8Max == Base - 1

\* what XPutImage may return: Success, an error code, a value that is no u8
NativeResults == {Success, BadValue, -1}
BlitCoords == {0, MaxCoord}
Positions == BlitCoords \X BlitCoords

\* u32 -> c_int by try_into().unwrap()
FitsI32(p) == p[1] <= I32Max /\ p[2] <= I32Max

\* xlib::PixelBuffer::blit_rect
xlib_blit_rect(b, src_pos, dst_pos, blit_size, result) ==
    IF ~(FitsI32(src_pos) /\ FitsI32(dst_pos))
    THEN [kind |-> "panic", err |-> "TryFromIntError", events |-> <<>>]
    ELSE LET evs == <<Ev("XPutImage", [src |-> src_pos, dst |-> dst_pos, size |-> blit_size])>>
         IN  IF result < 0 \/ result > U8Max
               THEN [kind |-> "panic", err |-> "TryFromIntError", events |-> evs]
             ELSE IF result # Success
               THEN [kind |-> "err",
                     err |-> IF result = BadValue THEN "Other: BadValue" ELSE "Other: Unknown error",
                     events |-> evs]
             ELSE [kind |-> "ok", err |-> "", events |-> evs]

\* a dispatch that takes every X11 handle for an Xlib handle
HandleIsXlib_AnyX11(tag) == tag \in {"Xlib", "Xcb"}

\* the match on the handle in PixelBuffer::blit_rect (backend Xlib)
HandleIsXlib(tag) == tag = "Xlib"

\* PixelBuffer::blit_rect of the facade
blit_rect(b, src_pos, dst_pos, blit_size, tag, result) ==
    IF HandleIsXlib(tag)
    THEN xlib_blit_rect(b, src_pos, dst_pos, blit_size, result)
    ELSE [kind |-> "err", err |-> "InvalidInput: Expected Xlib handle, got an XCB handle",
          events |-> <<>>]

\* PixelBuffer::blit
blit(b, tag, result) == blit_rect(b, <<0, 0>>, <<0, 0>>, <<b.width, b.height>>, tag, result)

BlitRect ==
    /\ pb.live
    /\ \E src_pos \in Positions, blit_size \in Positions, tag \in HandleTags,
          result \in NativeResults :
          \E r \in {blit_rect(pb, src_pos, <<0, 0>>, blit_size, tag, result)} :
             /\ ret' = [op |-> "blit_rect", kind |-> r.kind, err |-> r.err, tag |-> tag,
                        src |-> src_pos, size |-> blit_size, pbBefore |-> pb]
             /\ events' = r.events
    /\ UNCHANGED <<build, cell, initCount, pb, image, bufFrees, tpc, tdisp, tres>>

Blit ==
    /\ pb.live
    /\ \E tag \in HandleTags, result \in NativeResults :
          \E r \in {blit(pb, tag, result)} :
             /\ ret' = [op |-> "blit", kind |-> r.kind, err |-> r.err, tag |-> tag,
                        pbBefore |-> pb]
             /\ events' = r.events
    /\ UNCHANGED <<build, cell, initCount, pb, image, bufFrees, tpc, tdisp, tres>>

-----------------------------------------------------------------------------

(* XlibContext::get called from several threads.  OnceCell::get_or_try_init
   lets one thread run the initialiser while the others block; a failed
   initialiser leaves the cell empty. *)

\* a thread calls XlibContext::get(display)
GetCall(t) ==
    /\ tpc[t] = "idle"
    /\ \E display \in Displays : tdisp' = [tdisp EXCEPT ![t] = display]
    /\ tpc' = [tpc EXCEPT ![t] = "enter"]
    /\ UNCHANGED <<build, cell, initCount, pb, image, bufFrees, ret, events, tres>>

\* get_or_try_init: the cell is set, or this thread becomes the initialiser
GetEnter(t) ==
    /\ tpc[t] = "enter"
    /\ cell.state # "Running"
    /\ IF cell.state = "Complete"
       THEN /\ tpc' = [tpc EXCEPT ![t] = "assert"]
            /\ cell' = cell
       ELSE /\ tpc' = [tpc EXCEPT ![t] = "init"]
            /\ cell' = [cell EXCEPT !.state = "Running"]
    /\ UNCHANGED <<build, initCount, pb, image, bufFrees, ret, events, tdisp, tres>>

\* the initialiser, XlibContext::init(display), and its `?`
GetInit(t) ==
    /\ tpc[t] = "init"
    /\ \E openOk \in BOOLEAN :
          \E i \in {XlibContext_init(tdisp[t], openOk)} :
             IF i.kind = "ok"
             THEN /\ cell' = [state |-> "Complete", display |-> i.display]
                  /\ initCount' = initCount + 1
                  /\ tpc' = [tpc EXCEPT ![t] = "assert"]
                  /\ tres' = tres
             ELSE /\ cell' = EmptyCell
                  /\ initCount' = initCount
                  /\ tpc' = [tpc EXCEPT ![t] = "idle"]
                  /\ tres' = [tres EXCEPT ![t] = [kind |-> "err", asked |-> tdisp[t]]]
    /\ UNCHANGED <<build, pb, image, bufFrees, ret, events, tdisp>>

\* assert!(context.display == display as usize); Ok(context)
GetAssert(t) ==
    /\ tpc[t] = "assert"
    /\ \E c \in {XlibContext_check(cell, tdisp[t])} :
          tres' = [tres EXCEPT ![t] = [kind |-> c.kind, asked |-> tdisp[t],
                                       display |-> cell.display]]
    /\ tpc' = [tpc EXCEPT ![t] = "idle"]
    /\ UNCHANGED <<build, cell, initCount, pb, image, bufFrees, ret, events, tdisp>>

CtxNext == \E t \in Threads : GetCall(t) \/ GetEnter(t) \/ GetInit(t) \/ GetAssert(t)

CtxSpec == Init /\ [][CtxNext]_vars

-----------------------------------------------------------------------------

Next == New \/ Blit \/ BlitRect \/ Row \/ RowMut \/ Rows \/ RowsMut \/ Drop

Spec == Init /\ [][Next]_vars

-----------------------------------------------------------------------------
(* Properties *)

BlitOps == {"blit", "blit_rect"}
RowOps == {"row", "row_mut"}
RowsOps == {"rows", "rows_mut"}

\* width * bytes_per_pixel, exact
PixelLen(b) == MulL(ToLimbs(b.width), ToLimbs(bytes_per_pixel(b)))

\* width * height * bytes_per_pixel, exact
ExactSize(b) == MulL(PixelLen(b), ToLimbs(b.height))

\* the source rectangle reaches past the buffer
OutOfBounds(b, src_pos, blit_size) ==
    \/ src_pos[1] + blit_size[1] > b.width
    \/ src_pos[2] + blit_size[2] > b.height

\* position of the first event named call, 0 when there is none
RECURSIVE IndexOf(_, _, _)
IndexOf(evs, call, i) ==
    IF i > Len(evs) THEN 0
    ELSE IF evs[i].call = call THEN i ELSE IndexOf(evs, call, i + 1)

RECURSIVE VisAllocs(_)
VisAllocs(evs) ==
    IF evs = <<>> THEN 0
    ELSE (IF Head(evs).call = "XGetVisualInfo" /\ Head(evs).arg.found THEN 1 ELSE 0)
         + VisAllocs(Tail(evs))

(* C1: a blit_rect with a handle of the bound backend whose source rectangle
   reaches past the buffer (src_pos.x + size.w > width or src_pos.y + size.h >
   height) returns an OutOfBounds error and issues no XPutImage. *)
C1_OutOfBoundsRejected ==
    (ret.op = "blit_rect" /\ ret.tag = "Xlib" /\ OutOfBounds(ret.pbBefore, ret.src, ret.size))
        => /\ ret.kind = "err"
           /\ ret.err = "OutOfBounds"
           /\ Count(events, "XPutImage") = 0

(* C2: on a bound buffer, a blit or blit_rect presenting a handle whose tag is
   not the bound backend's returns an error value (InvalidInput, the code's
   handle mismatch): no panic, no native call, the buffer and its image are
   left as they were, and a later blit with the right handle goes through. *)
C2_HandleMismatch ==
    (ret.op \in BlitOps /\ ret.tag # "Xlib")
        => /\ ret.kind = "err"
           /\ ret.err = "InvalidInput: Expected Xlib handle, got an XCB handle"
           /\ events = <<>>
           /\ pb.live /\ pb = ret.pbBefore
           /\ image.st = "live" /\ image.data = "buf"
           /\ blit(pb, "Xlib", Success).kind = "ok"

C2_Witness ==
    /\ ret.op = "blit_rect" /\ ret.tag = "Xcb" /\ ret.kind = "err"
    /\ pb.live /\ pb.height = 2 /\ \E i \in 1..Len(pb.buf) : pb.buf[i] = MarkerByte

(* C3: row(n) and row_mut(n) return a slice of exactly width*bytes_per_pixel
   bytes when n < height, and None, without a panic, when n >= height. *)
C3_RowBounds ==
    ret.op \in RowOps
        => IF ret.n < pb.height
           THEN ret.res.kind = "some" /\ ToLimbs(ret.res.len) = PixelLen(pb)
           ELSE ret.res.kind = "none"

(* C4: rows() and rows_mut() yield exactly height items, the i-th being the
   byte range of row(i), each width*bytes_per_pixel bytes long. *)
C4_RowsMatchRow ==
    ret.op \in RowsOps
        => /\ ret.res.kind = "items"
           /\ Len(ret.res.items) = pb.height
           /\ \A i \in 1..Len(ret.res.items) :
                 /\ ToLimbs(ret.res.items[i].len) = PixelLen(pb)
                 /\ row(pb, i - 1) = [kind |-> "some", start |-> ret.res.items[i].start,
                                      len |-> ret.res.items[i].len]

(* C5: for height >= 1 and n < height, row(n) / row_mut(n) address the range of
   bytes() that starts at (height - 1 - n) * row_len and is
   width*bytes_per_pixel long, and a write through row_mut(n) changes the
   bytes of that range and no other byte. *)
C5_FlippedRows ==
    (ret.op \in RowOps /\ pb.height >= 1 /\ ret.n < pb.height)
        => /\ ret.res.kind = "some"
           /\ ToLimbs(ret.res.start)
                 = MulL(ToLimbs(pb.height - 1 - ret.n), row_len(pb).value)
           /\ ToLimbs(ret.res.len) = PixelLen(pb)
           /\ ret.op = "row_mut"
                 => \A i \in 1..Len(pb.buf) :
                       pb.buf[i] = IF i > ret.res.start /\ i <= ret.res.start + ret.res.len
                                   THEN MarkerByte ELSE ret.before[i]

(* C6: the length of the buffer of every PixelBuffer new() returned is
   width*height*bytes_per_pixel, computed without wrap-around, in every
   state reached afterwards. *)
C6_ExactLength ==
    pb.live => ToLimbs(Len(pb.buf)) = ExactSize(pb)

(* C7: new() reports every construction failure as an error value and never
   panics; a handle whose tag has no backend is UnsupportedHandle. *)
C7_NewNeverPanics ==
    ret.op = "new"
        => /\ ret.kind \in {"ok", "err"}
           /\ ret.tag # "Xlib" => ret.kind = "err" /\ ret.what = "UnsupportedHandle"

(* C8: when new() fails, every native allocation it made (the visual-info
   list, the buffer behind the native image) has been released by the time
   the failure leaves new(). *)
C8_Transactional ==
    (ret.op = "new" /\ ret.kind # "ok")
        => /\ VisAllocs(events) = Count(events, "XFree")
           /\ Count(events, "alloc_buf") = Count(events, "free_buf")

(* C9: over any interleaving of XlibContext::get calls, the context is
   initialised at most once, no call fails by a panic, and every successful
   get(d) returns a context whose display is d. *)
C9_ContextPerDisplay ==
    /\ initCount <= 1
    /\ \A t \in Threads :
          /\ tres[t].kind # "panic"
          /\ tres[t].kind = "ok" => tres[t].display = tres[t].asked

(* C10: a drop detaches the image's data pointer, then destroys the image,
   and only then frees the buffer's storage; the image and the storage are
   each released exactly once, and the shared context is left as it was. *)
C10_DropOrder ==
    ret.op = "drop"
        => /\ IndexOf(events, "set_data", 1) > 0
           /\ events[IndexOf(events, "set_data", 1)].arg = "null"
           /\ IndexOf(events, "set_data", 1) < IndexOf(events, "XDestroyImage", 1)
           /\ IndexOf(events, "XDestroyImage", 1) < IndexOf(events, "free_buf", 1)
           /\ Count(events, "XDestroyImage") = 1
           /\ Count(events, "free_buf") = 1
           /\ image.st = "destroyed" /\ image.frees = 1
           /\ bufFrees = 1
           /\ cell = ret.cellBefore /\ cell.state = "Complete"

C10_Witness ==
    /\ ret.op = "drop" /\ ~pb.live
    /\ image.st = "destroyed" /\ bufFrees = 1
    /\ cell.state = "Complete"
====
